---- MODULE Spec2Model ----
(***************************************************************************)
(* A model of mockbuild/buildroot.py: the Buildroot lifecycle operations   *)
(* initialize(), finalize() and delete() run by several processes on one   *)
(* base directory, the fcntl lock on <basedir>/buildroot.lock, the         *)
(* residual unmount sweep over the host's mount table, make_chroot_path,   *)
(* _enable_chrootuser_account and the regions that change the identity.    *)
(*                                                                         *)
(* Every process owns one Buildroot object.  A step of a process is one or *)
(* several consecutive statements of the method it is in; the steps of     *)
(* different processes interleave freely.  fcntl.lockf locks belong to the *)
(* pair (process, inode): the lock file a process has open stays the same  *)
(* inode when the path is unlinked by rmtree(basedir) and created again.   *)
(***************************************************************************)
EXTENDS Integers, Sequences, FiniteSets, TLC

\* Number of processes working on the same base directory.
NumProcs == 2

Procs == 1..NumProcs

\* Inode numbers of lock files: 0 is "no file" / "_lock_file is None".
Inodes == 1..(NumProcs + 1)

\* Things that can exist below the base directory (the lock file is lockIno).
\*   base      <basedir>                        root     <basedir>/root
\*   skel      the skeleton directories         dev      the device nodes
\*   useradd   usr/sbin/useradd (installed)     user     the build user
\*   builddirs <home>/build/...                 marker   <rootdir>/.initialized
Items == {"base", "root", "skel", "dev", "useradd", "user", "builddirs", "marker"}

\* config['internal_dev_setup'] (the default configuration sets it).
internal_dev_setup == TRUE

VARIABLES
    tree,                   \* the Items that exist on the host
    lockIno,                \* inode of <basedir>/buildroot.lock, 0 if absent
    mounted,                \* the sandbox has mounts (Mounts.mountall ran)
    pc,                     \* per process: position in the running method
    op,                     \* per process: the method running or last run
    result,                 \* per process: how the last call ended
    raised,                 \* per process: exception pending in initialize()
    did,                    \* per process: what the running/last call did
    lockFile,               \* per process: inode self._lock_file is open on
    lockMode,               \* per process: lock held on that inode
    chroot_was_initialized, \* per process: self.chroot_was_initialized
    logging_initialized,    \* per process: self.logging_initialized
    mtab,                   \* /proc/mounts: the mount points, in listing order
    pos,                    \* _umount_residual: entries still to visit
    umounts,                \* _umount_residual: the umount commands issued
    outcomes,               \* _umount_residual: whether each command failed
    okSinceDelete,          \* history: an initialize() has returned normally
                            \* since delete() was last called
    paths,                  \* make_chroot_path: the arguments still to join
    new_path,               \* make_chroot_path: the path built so far
    mcp,                    \* make_chroot_path: position in the method
    uid,                    \* the identity the process runs as
    privStack,              \* uid_manager: the identities saved by drops
    call,                   \* privilege regions: the call being followed
    route,                  \* the path initialize() takes in that call
    todo,                   \* the regions the call has still to run
    rpc,                    \* position in the region Head(todo)
    rexc,                   \* the exception pending in / raised by the call
    resultdir,              \* the result directory: absent, present, or the
                            \* identity that created it
    handlers,               \* the log files whose handler was attached
    drops,                  \* drops of the region so far
    restores,               \* restores of the region so far
    entry,                  \* identity and stack when the call began
    rdfail,                 \* the call failed to create the result directory
    passwd,                 \* <rootdir>/etc/passwd: its lines, as stored
    passwd0,                \* history: the file before the call
    lineno,                 \* _enable_chrootuser_account: lines handled
    newlines,               \* _enable_chrootuser_account: newlines
    disabled,               \* _enable_chrootuser_account: disabled
    rewritten,              \* history: the file was opened for writing
    epc                     \* _enable_chrootuser_account: position

host == <<tree, lockIno, mounted>>
proc == <<pc, op, result, raised, did, lockFile, lockMode,
          chroot_was_initialized, logging_initialized>>
resid == <<mtab, pos, umounts, outcomes>>
pathv == <<paths, new_path, mcp>>
priv == <<uid, privStack, call, route, todo, rpc, rexc, resultdir, handlers,
          drops, restores, entry, rdfail>>
pwv == <<passwd, passwd0, lineno, newlines, disabled, rewritten, epc>>
aux == <<pathv, priv, pwv>>
vars == <<tree, lockIno, mounted, pc, op, result, raised, did, lockFile,
          lockMode, chroot_was_initialized, logging_initialized,
          mtab, pos, umounts, outcomes, okSinceDelete,
          paths, new_path, mcp,
          uid, privStack, call, route, todo, rpc, rexc, resultdir, handlers,
          drops, restores, entry, rdfail,
          passwd, passwd0, lineno, newlines, disabled, rewritten, epc>>

----------------------------------------------------------------------------
(* Helpers *)

Exists(x) == x \in tree

\* os.path.exists(self.make_chroot_path('.initialized'))
chroot_is_initialized == Exists("marker")

\* The inode a newly created lock file gets: one that no open handle and no
\* existing file uses.
FreshIno ==
    CHOOSE i \in Inodes :
        /\ i # lockIno
        /\ \A q \in Procs : lockFile[q] # i
        /\ \A j \in Inodes :
              (j # lockIno /\ \A q \in Procs : lockFile[q] # j) => i <= j

\* _open_lock: mkdirIfAbsent(basedir); open(<basedir>/buildroot.lock, "a+").
\* The inode the handle of p is open on after "if not self._lock_file:
\* self._open_lock()".
HandleAfterOpen(p) ==
    IF lockFile[p] # 0 THEN lockFile[p]
    ELSE IF lockIno # 0 THEN lockIno ELSE FreshIno

LockFileAfterOpen(p) ==
    IF lockFile[p] # 0 \/ lockIno # 0 THEN lockIno ELSE FreshIno

TreeAfterOpen(p) ==
    IF lockFile[p] # 0 THEN tree ELSE tree \cup {"base"}

\* fcntl.lockf(fd, lock_type | LOCK_NB) by p on inode ino succeeds iff no
\* other process holds a conflicting lock on the same inode.
CanLock(p, mode, ino) ==
    \A q \in Procs \ {p} :
        (lockFile[q] = ino /\ lockMode[q] # "none")
            => (mode = "sh" /\ lockMode[q] = "sh")

\* _lock_buildroot(exclusive), lines 269-276: whether lockf grants the lock.
LockGranted(p, mode) == CanLock(p, mode, HandleAfterOpen(p))

\* _lock_buildroot(exclusive): the handle is opened when it is None, and the
\* lock is taken when lockf grants it (a refused conversion keeps the lock
\* the process had).
lock_buildroot(p, mode) ==
    /\ tree' = TreeAfterOpen(p)
    /\ lockIno' = LockFileAfterOpen(p)
    /\ lockFile' = [lockFile EXCEPT ![p] = HandleAfterOpen(p)]
    /\ lockMode' = [lockMode EXCEPT
                        ![p] = IF LockGranted(p, mode) THEN mode ELSE @]

\* _unlock_buildroot, lines 278-281: closing the handle drops the lock.
unlock_buildroot(p) ==
    /\ lockFile' = [lockFile EXCEPT ![p] = 0]
    /\ lockMode' = [lockMode EXCEPT ![p] = "none"]

\* What initialize() notes about the moment it is called: whether another
\* process holds a lock, whether an initialize() has returned normally
\* since delete() was last called, and whether the base directory is missing.
AtInitialize(p) ==
    (IF \E q \in Procs \ {p} : lockMode[q] # "none" THEN {"contended"} ELSE {})
    \cup (IF okSinceDelete THEN {"afterok"} ELSE {})
    \cup (IF Exists("base") THEN {} ELSE {"nobase"})

\* What finalize() notes about the moment it is called: whether the caller
\* holds the shared lock.
AtFinalize(p) == IF lockMode[p] = "sh" THEN {"hadsh"} ELSE {}

\* The start of a call.
Begin(p, name) ==
    /\ pc[p] = "idle"
    /\ op' = [op EXCEPT ![p] = name]

Goto(p, where) ==
    /\ pc' = [pc EXCEPT ![p] = where]
    /\ result' = [result EXCEPT ![p] = "running"]

Return(p, how) ==
    /\ pc' = [pc EXCEPT ![p] = "idle"]
    /\ result' = [result EXCEPT ![p] = how]

Did(p, what) == did' = [did EXCEPT ![p] = @ \cup what]

----------------------------------------------------------------------------
(* initialize(), lines 64-77, and _init(), lines 82-119 *)

\* Line 71: self._lock_buildroot(exclusive=True).  BuildRootLocked is caught
\* by "except BuildRootLocked: pass" and control reaches the finally block.
InitLockEx(p) ==
    /\ Begin(p, "initialize")
    /\ lock_buildroot(p, "ex")
    /\ did' = [did EXCEPT ![p] = AtInitialize(p) \cup
                  (IF LockGranted(p, "ex") THEN {} ELSE {"exfail"})]
    /\ Goto(p, IF LockGranted(p, "ex") THEN "init" ELSE "init_sh")
    /\ raised' = [raised EXCEPT ![p] = "none"]
    /\ UNCHANGED <<mounted, chroot_was_initialized, logging_initialized, resid, aux, okSinceDelete>>

\* Lines 84-92: the residual unmount, the preinit hook and the marker check.
InitCheck(p) ==
    /\ pc[p] = "init"
    /\ mounted' = FALSE
    /\ chroot_was_initialized' =
          [chroot_was_initialized EXCEPT ![p] = chroot_is_initialized]
    /\ Did(p, {"init"})
    /\ Goto(p, IF chroot_is_initialized THEN "init_reentry" ELSE "init_dirs")
    /\ UNCHANGED <<tree, lockIno, op, raised, lockFile, lockMode,
                   logging_initialized, resid, aux, okSinceDelete>>

\* _setup_devices, lines 333-380: clears dev and creates the nodes again;
\* mkdirIfAbsent creates the missing parents.
setup_devices(t) ==
    IF internal_dev_setup THEN (t \ {"dev"}) \cup {"base", "root", "dev"} ELSE t

\* Lines 93-97: _setup_dirs, _setup_devices, _setup_files, mountall and
\* _resetLogging.
InitSetupDirs(p) ==
    /\ pc[p] = "init_dirs"
    /\ tree' = setup_devices(tree \cup {"base", "root", "skel"})
    /\ mounted' = TRUE
    /\ logging_initialized' = [logging_initialized EXCEPT ![p] = TRUE]
    /\ Did(p, {"dirs", "devices"})
    /\ Goto(p, "init_pkg")
    /\ UNCHANGED <<lockIno, op, raised, lockFile, lockMode,
                   chroot_was_initialized, resid, aux, okSinceDelete>>

\* Lines 103-107: resolver, dbus, aux files, timezone, _init_pkg_management.
\* The files of lines 103-106 are written below etc and var/lib/dbus, which
\* raises IOError when the skeleton directories are gone.  The dependency
\* install runs only when the sandbox was not initialized (line 166);
\* whether it brings usr/sbin/useradd depends on the configured command and
\* on the package manager.
InitPkgManagement(p) ==
    /\ pc[p] = "init_pkg"
    /\ IF ~Exists("skel")
          THEN /\ tree' = tree
               /\ Did(p, {})
               /\ raised' = [raised EXCEPT ![p] = "IOError"]
               /\ Goto(p, "init_sh")
          ELSE /\ IF chroot_was_initialized[p]
                     THEN /\ tree' = tree
                          /\ Did(p, {})
                     ELSE /\ \E brings \in BOOLEAN :
                                tree' = tree \cup
                                    (IF brings THEN {"useradd"} ELSE {})
                          /\ Did(p, {"install"})
               /\ raised' = raised
               /\ Goto(p, "init_user")
    /\ UNCHANGED <<lockIno, mounted, op, lockFile, lockMode,
                   chroot_was_initialized, logging_initialized, resid, aux, okSinceDelete>>

\* _make_build_user without the test of lines 174-175: the user is made
\* whether usr/sbin/useradd is there or not.
InitMakeBuildUserUnchecked(p) ==
    /\ pc[p] = "init_user"
    /\ tree' = tree \cup {"user"}
    /\ Did(p, {"mkuser"})
    /\ raised' = raised
    /\ Goto(p, "init_builddirs")
    /\ UNCHANGED <<lockIno, mounted, op, lockFile, lockMode,
                   chroot_was_initialized, logging_initialized, resid, aux,
                   okSinceDelete>>

\* Line 108: _make_build_user (lines 173-189) raises RootError without
\* usr/sbin/useradd; otherwise the user is made.
InitMakeBuildUser(p) ==
    /\ pc[p] = "init_user"
    /\ IF Exists("useradd")
          THEN /\ tree' = tree \cup {"user"}
               /\ Did(p, {"mkuser"})
               /\ raised' = raised
               /\ Goto(p, "init_builddirs")
          ELSE /\ tree' = tree
               /\ Did(p, {})
               /\ raised' = [raised EXCEPT ![p] = "RootError"]
               /\ Goto(p, "init_sh")
    /\ UNCHANGED <<lockIno, mounted, op, lockFile, lockMode,
                   chroot_was_initialized, logging_initialized, resid, aux, okSinceDelete>>

\* Line 109: _setup_build_dirs (lines 310-331); mkdirIfAbsent makes the
\* directories with every missing parent, the home directory and the
\* sandbox root included.
InitSetupBuildDirs(p) ==
    /\ pc[p] = "init_builddirs"
    /\ tree' = tree \cup {"base", "root", "builddirs"}
    /\ Did(p, {"builddirs"})
    /\ Goto(p, "init_touch")
    /\ UNCHANGED <<lockIno, mounted, op, raised, lockFile, lockMode,
                   chroot_was_initialized, logging_initialized, resid, aux,
                   okSinceDelete>>

\* Lines 111-112: the re-entry path, _setup_devices and mountall.
InitReentry(p) ==
    /\ pc[p] = "init_reentry"
    /\ tree' = setup_devices(tree)
    /\ mounted' = TRUE
    /\ Did(p, {"devices"})
    /\ Goto(p, "init_touch")
    /\ UNCHANGED <<lockIno, op, raised, lockFile, lockMode,
                   chroot_was_initialized, logging_initialized, resid, aux, okSinceDelete>>

\* Lines 115-119: util.touch(<rootdir>/.initialized) and the postinit hook.
\* Opening the marker for writing fails when the sandbox root is gone.
InitTouch(p) ==
    /\ pc[p] = "init_touch"
    /\ IF Exists("root")
          THEN /\ tree' = tree \cup {"marker"}
               /\ Did(p, {"marker"})
               /\ raised' = raised
          ELSE /\ tree' = tree
               /\ Did(p, {})
               /\ raised' = [raised EXCEPT ![p] = "Error"]
    /\ Goto(p, "init_sh")
    /\ UNCHANGED <<lockIno, mounted, op, lockFile, lockMode,
                   chroot_was_initialized, logging_initialized, resid, aux, okSinceDelete>>

\* Lines 75-76: finally: self._lock_buildroot(exclusive=False).  When the
\* shared lock is refused, BuildRootLocked leaves initialize() in place of
\* whatever was pending; otherwise a pending exception goes on to the caller.
InitLockSh(p) ==
    /\ pc[p] = "init_sh"
    /\ lock_buildroot(p, "sh")
    /\ IF ~LockGranted(p, "sh")
          THEN Return(p, "BuildRootLocked")
          ELSE IF raised[p] # "none"
                  THEN Return(p, raised[p])
                  ELSE Goto(p, "init_log")
    /\ raised' = [raised EXCEPT ![p] = "none"]
    /\ UNCHANGED <<mounted, op, did, chroot_was_initialized,
                   logging_initialized, resid, aux, okSinceDelete>>

\* Line 77: self._resetLogging() (lines 208-234), then initialize() returns.
InitResetLogging(p) ==
    /\ pc[p] = "init_log"
    /\ logging_initialized' = [logging_initialized EXCEPT ![p] = TRUE]
    /\ Return(p, "ok")
    /\ okSinceDelete' = TRUE
    /\ UNCHANGED <<host, op, raised, did, lockFile, lockMode,
                   chroot_was_initialized, resid, aux>>

----------------------------------------------------------------------------
(* finalize(), lines 388-400 *)

\* finalize() without the test of line 392: the lock is tried at once.
FinalizeLockUnguarded(p) ==
    /\ Begin(p, "finalize")
    /\ lock_buildroot(p, "ex")
    /\ did' = [did EXCEPT ![p] = AtFinalize(p) \cup {"sawroot"} \cup
                  (IF LockGranted(p, "ex") THEN {} ELSE {"exfail"})]
    /\ Goto(p, IF LockGranted(p, "ex") THEN "fin_cleanup" ELSE "fin_unlock")
    /\ UNCHANGED <<mounted, raised, chroot_was_initialized,
                   logging_initialized, resid, aux, okSinceDelete>>

\* Lines 392-394: nothing is done without the sandbox root; otherwise the
\* exclusive lock is tried, and BuildRootLocked is swallowed (line 397).
FinalizeLock(p) ==
    /\ Begin(p, "finalize")
    /\ IF Exists("root")
          THEN /\ lock_buildroot(p, "ex")
               /\ did' = [did EXCEPT ![p] = AtFinalize(p) \cup {"sawroot"} \cup
                             (IF LockGranted(p, "ex") THEN {} ELSE {"exfail"})]
               /\ Goto(p, IF LockGranted(p, "ex")
                             THEN "fin_cleanup" ELSE "fin_unlock")
          ELSE /\ UNCHANGED <<tree, lockIno, lockFile, lockMode>>
               /\ did' = [did EXCEPT ![p] = {}]
               /\ Return(p, "ok")
    /\ UNCHANGED <<mounted, raised, chroot_was_initialized,
                   logging_initialized, resid, aux, okSinceDelete>>

\* Lines 395-396: util.orphansKill(rootdir) and self._umount_all().
FinalizeCleanup(p) ==
    /\ pc[p] = "fin_cleanup"
    /\ mounted' = FALSE
    /\ Did(p, {"kill", "umount"})
    /\ Goto(p, "fin_unlock")
    /\ UNCHANGED <<tree, lockIno, op, raised, lockFile, lockMode,
                   chroot_was_initialized, logging_initialized, resid, aux, okSinceDelete>>

\* Lines 399-400: finally: self._unlock_buildroot().
FinalizeUnlock(p) ==
    /\ pc[p] = "fin_unlock"
    /\ unlock_buildroot(p)
    /\ Return(p, "ok")
    /\ UNCHANGED <<host, op, raised, did, chroot_was_initialized,
                   logging_initialized, resid, aux, okSinceDelete>>

----------------------------------------------------------------------------
(* delete(), lines 402-412 *)

\* Lines 406-407: without the base directory only the flag is reset (line
\* 412); otherwise the exclusive lock is tried and BuildRootLocked goes to
\* the caller.
DeleteLock(p) ==
    /\ Begin(p, "delete")
    /\ IF Exists("base")
          THEN /\ lock_buildroot(p, "ex")
               /\ did' = [did EXCEPT ![p] = {"sawbase"} \cup
                             (IF LockGranted(p, "ex") THEN {} ELSE {"exfail"})]
               /\ IF LockGranted(p, "ex")
                     THEN Goto(p, "del_cleanup")
                     ELSE Return(p, "BuildRootLocked")
               /\ UNCHANGED chroot_was_initialized
          ELSE /\ UNCHANGED <<tree, lockIno, lockFile, lockMode>>
               /\ did' = [did EXCEPT ![p] = {}]
               /\ chroot_was_initialized' =
                     [chroot_was_initialized EXCEPT ![p] = FALSE]
               /\ Return(p, "ok")
    /\ okSinceDelete' = FALSE
    /\ UNCHANGED <<mounted, raised, logging_initialized, resid, aux>>

\* Lines 408-409: util.orphansKill(rootdir) and self._umount_all().
DeleteCleanup(p) ==
    /\ pc[p] = "del_cleanup"
    /\ mounted' = FALSE
    /\ Did(p, {"kill", "umount"})
    /\ Goto(p, "del_unlock")
    /\ UNCHANGED <<tree, lockIno, op, raised, lockFile, lockMode,
                   chroot_was_initialized, logging_initialized, resid, aux, okSinceDelete>>

\* Line 410: self._unlock_buildroot().
DeleteUnlock(p) ==
    /\ pc[p] = "del_unlock"
    /\ unlock_buildroot(p)
    /\ Goto(p, "del_rmtree")
    /\ UNCHANGED <<host, op, raised, did, chroot_was_initialized,
                   logging_initialized, resid, aux, okSinceDelete>>

\* delete() without line 412: the flag keeps its value.
DeleteRmtreeKeepsFlag(p) ==
    /\ pc[p] = "del_rmtree"
    /\ tree' = {}
    /\ lockIno' = 0
    /\ Did(p, {"rmtree"})
    /\ Return(p, "ok")
    /\ UNCHANGED <<mounted, op, raised, lockFile, lockMode,
                   chroot_was_initialized, logging_initialized, resid, aux,
                   okSinceDelete>>

\* Lines 411-412: util.rmtree(self.basedir) takes the lock file with it;
\* then the flag is reset and delete() returns.
DeleteRmtree(p) ==
    /\ pc[p] = "del_rmtree"
    /\ tree' = {}
    /\ lockIno' = 0
    /\ chroot_was_initialized' = [chroot_was_initialized EXCEPT ![p] = FALSE]
    /\ Did(p, {"rmtree"})
    /\ Return(p, "ok")
    /\ UNCHANGED <<mounted, op, raised, lockFile, lockMode,
                   logging_initialized, resid, aux, okSinceDelete>>

----------------------------------------------------------------------------
(* The processes *)

\* Buildroot.__init__, lines 18-54, in every process, on a host without the
\* base directory.
InitProcs ==
    /\ tree = {}
    /\ lockIno = 0
    /\ mounted = FALSE
    /\ pc = [p \in Procs |-> "idle"]
    /\ op = [p \in Procs |-> "none"]
    /\ result = [p \in Procs |-> "none"]
    /\ raised = [p \in Procs |-> "none"]
    /\ did = [p \in Procs |-> {}]
    /\ lockFile = [p \in Procs |-> 0]
    /\ lockMode = [p \in Procs |-> "none"]
    /\ chroot_was_initialized = [p \in Procs |-> FALSE]
    /\ logging_initialized = [p \in Procs |-> FALSE]
    /\ okSinceDelete = FALSE

\* No call of make_chroot_path is being followed.
PathIdle ==
    /\ paths = <<>>
    /\ new_path = <<>>
    /\ mcp = "idle"

\* No call of _enable_chrootuser_account is being followed.
PasswdIdle ==
    /\ passwd = <<>>
    /\ passwd0 = <<>>
    /\ lineno = 0
    /\ newlines = <<>>
    /\ disabled = FALSE
    /\ rewritten = FALSE
    /\ epc = "idle"

\* No call is being followed for its privilege regions: the process runs
\* as root, nothing is saved, the result directory is absent.
PrivIdle ==
    /\ uid = "root"
    /\ privStack = <<>>
    /\ call = "none"
    /\ route = "none"
    /\ todo = <<>>
    /\ rpc = "enter"
    /\ rexc = "none"
    /\ resultdir = "absent"
    /\ handlers = <<>>
    /\ drops = 0
    /\ restores = 0
    /\ entry = <<"root", <<>>>>
    /\ rdfail = FALSE

\* In the lifecycle specifications the sweep over the mount table is the
\* single effect "no mounts are left" (see InitCheck, FinalizeCleanup).
Init ==
    /\ InitProcs
    /\ PathIdle
    /\ PrivIdle
    /\ PasswdIdle
    /\ mtab = <<>>
    /\ pos = 0
    /\ umounts = <<>>
    /\ outcomes = <<>>

Step(p) ==
    \/ InitLockEx(p)
    \/ InitCheck(p)
    \/ InitSetupDirs(p)
    \/ InitPkgManagement(p)
    \/ InitMakeBuildUser(p)
    \/ InitSetupBuildDirs(p)
    \/ InitReentry(p)
    \/ InitTouch(p)
    \/ InitLockSh(p)
    \/ InitResetLogging(p)
    \/ FinalizeLock(p)
    \/ FinalizeCleanup(p)
    \/ FinalizeUnlock(p)
    \/ DeleteLock(p)
    \/ DeleteCleanup(p)
    \/ DeleteUnlock(p)
    \/ DeleteRmtree(p)

\* The processes run concurrently: any process takes the next step.
Next == \E p \in Procs : Step(p)

Spec == Init /\ [][Next]_vars

\* The calls are made one after the other: a process takes a step only
\* while no other process is inside a call.
NextSeq == \E p \in Procs : (\A q \in Procs \ {p} : pc[q] = "idle") /\ Step(p)

SpecSeq == Init /\ [][NextSeq]_vars

----------------------------------------------------------------------------
(* _umount_residual(), lines 432-442, and _mount_is_ours(), lines 423-429 *)

\* Longest mount table the sweep is run on.
MaxMounts == 3

\* Paths are sequences of characters.
rootdir == <<"/", "s", "b">>

MountPoints ==
    { <<"/">>,
      <<"/", "p">>,
      <<"/", "s", "b">>,
      <<"/", "s", "b", "/">>,
      <<"/", "s", "b", "x">>,
      <<"/", "s", "b", "/", "a">>,
      <<"/", "s", "b", "/", "/", "a">>,
      <<"/", "s", "b", "/", "a", "/", "b">>,
      <<"/", "s", "b", "/", "a", "/", "b", "/", "c">> }

\* A line of /proc/mounts: device, mount point, file system type.
MountLines == { <<"none", m, "tmpfs">> : m \in MountPoints }

\* open("/proc/mounts").read().strip().split("\n"): the host always has
\* at least one mount.
MountTables ==
    UNION { [1..n -> MountLines] : n \in 1..MaxMounts }

RECURSIVE Collapse(_)
\* The path with every run of separators made one separator.
Collapse(path) ==
    IF Len(path) < 2 THEN path
    ELSE IF path[1] = "/" /\ path[2] = "/" THEN Collapse(Tail(path))
    ELSE <<path[1]>> \o Collapse(Tail(path))

\* os.path.realpath on a host without symbolic links: repeated and trailing
\* separators are dropped.
realpath(path) ==
    LET c == Collapse(path)
    IN  IF Len(c) > 1 /\ c[Len(c)] = "/" THEN SubSeq(c, 1, Len(c) - 1) ELSE c

\* str.startswith
startswith(s, prefix) ==
    /\ Len(prefix) <= Len(s)
    /\ SubSeq(s, 1, Len(prefix)) = prefix

\* _mount_is_ours without the separator appended to the sandbox root.
mount_is_ours_no_separator(mountpoint) ==
    startswith(realpath(mountpoint), realpath(rootdir))

\* _mount_is_ours, lines 423-429.
mount_is_ours(mountpoint) ==
    LET our_dir == realpath(rootdir) \o <<"/">>
    IN  startswith(realpath(mountpoint), our_dir)

\* The loop without reversed(): the lines are visited in listing order.
ForwardLine(table, left) == table[Len(table) - left + 1]

\* for mountline in reversed(mountpoints), line 437: the line visited when
\* `left` lines are still to be visited.
ReversedLine(table, left) == table[left]

\* One iteration of the loop, lines 437-442: mountline.split()[1] is the
\* mount point; util.do(cmd, raiseExc=0) never raises, whether the umount
\* command fails or not.
UmountResidualStep ==
    /\ pos > 0
    /\ LET mountpoint == ReversedLine(mtab, pos)[2]
       IN  IF mount_is_ours(mountpoint)
             THEN \E failed \in BOOLEAN :
                     /\ umounts' = Append(umounts, mountpoint)
                     /\ outcomes' = Append(outcomes, failed)
             ELSE UNCHANGED <<umounts, outcomes>>
    /\ pos' = pos - 1
    /\ UNCHANGED <<mtab, host, proc, aux, okSinceDelete>>

\* The sweep on any mount table.
InitResidual ==
    /\ InitProcs
    /\ PathIdle
    /\ PrivIdle
    /\ PasswdIdle
    /\ mtab \in MountTables
    /\ pos = Len(mtab)
    /\ umounts = <<>>
    /\ outcomes = <<>>

NextResidual == UmountResidualStep

SpecResidual == InitResidual /\ [][NextResidual]_vars

----------------------------------------------------------------------------
(* make_chroot_path(), lines 56-62 *)

\* Most arguments make_chroot_path is called with.
MaxPaths == 2

\* The arguments tried: etc, /etc, //etc, ../etc, .., a/../../etc, /../etc,
\* ., / and the empty string.
PathArgs ==
    { <<"e">>,
      <<"/", "e">>,
      <<"/", "/", "e">>,
      <<".", ".", "/", "e">>,
      <<".", ".">>,
      <<"a", "/", ".", ".", "/", ".", ".", "/", "e">>,
      <<"/", ".", ".", "/", "e">>,
      <<".">>,
      <<"/">>,
      <<>> }

PathArgLists == UNION { [1..n -> PathArgs] : n \in 0..MaxPaths }

\* os.path.join(a, b) of posixpath: an absolute b replaces a; otherwise b is
\* appended, with a separator unless a is empty or ends with one.
path_join(a, b) ==
    IF startswith(b, <<"/">>) THEN b
    ELSE IF a = <<>> \/ a[Len(a)] = "/" THEN a \o b
    ELSE a \o <<"/">> \o b

\* Line 57: new_path = self.rootdir.
MakeChrootPathBegin ==
    /\ mcp = "begin"
    /\ new_path' = rootdir
    /\ mcp' = "loop"
    /\ UNCHANGED <<paths, host, proc, resid, priv, pwv, okSinceDelete>>

\* Lines 58-61: one iteration of the loop; path[1:] drops one leading
\* separator.
MakeChrootPathJoin ==
    /\ mcp = "loop"
    /\ paths # <<>>
    /\ LET path == IF startswith(Head(paths), <<"/">>)
                      THEN Tail(Head(paths)) ELSE Head(paths)
       IN  new_path' = path_join(new_path, path)
    /\ paths' = Tail(paths)
    /\ UNCHANGED <<mcp, host, proc, resid, priv, pwv, okSinceDelete>>

\* Line 62: return new_path.
MakeChrootPathReturn ==
    /\ mcp = "loop"
    /\ paths = <<>>
    /\ mcp' = "done"
    /\ UNCHANGED <<paths, new_path, host, proc, resid, priv, pwv, okSinceDelete>>

\* make_chroot_path on any list of arguments.
InitPath ==
    /\ InitProcs
    /\ PrivIdle
    /\ PasswdIdle
    /\ mtab = <<>> /\ pos = 0 /\ umounts = <<>> /\ outcomes = <<>>
    /\ paths \in PathArgLists
    /\ new_path = <<>>
    /\ mcp = "begin"

NextPath ==
    \/ MakeChrootPathBegin
    \/ MakeChrootPathJoin
    \/ MakeChrootPathReturn

SpecPath == InitPath /\ [][NextPath]_vars

----------------------------------------------------------------------------
(* _enable_chrootuser_account(), lines 191-206 *)

\* Most lines of the passwd files tried.
MaxPasswdLines == 2

\* self.chrootuser ('mockbuild', line 38), written with one character.
chrootuser == <<"u">>

\* The lines tried, as stored in the file:
\*   u:!!x:1    u:x:1    u:!!!!:1    uu:!!x:1    r:!!x:0    r:x:0<space>
\* each ended by a newline, and u:!!x:1 without one (a last line).
PasswdLines ==
    { <<"u", ":", "!", "!", "x", ":", "1", "\n">>,
      <<"u", ":", "x", ":", "1", "\n">>,
      <<"u", ":", "!", "!", "!", "!", ":", "1", "\n">>,
      <<"u", "u", ":", "!", "!", "x", ":", "1", "\n">>,
      <<"r", ":", "!", "!", "x", ":", "0", "\n">>,
      <<"r", ":", "x", ":", "0", " ", "\n">>,
      <<"u", ":", "!", "!", "x", ":", "1">> }

\* The files: only the last line can lack its newline.
PasswdFiles ==
    { f \in UNION { [1..n -> PasswdLines] : n \in 1..MaxPasswdLines } :
        \A i \in 1..(Len(f) - 1) : f[i][Len(f[i])] = "\n" }

Whitespace == {" ", "\t", "\n"}

RECURSIVE lstrip(_)
lstrip(str) ==
    IF str # <<>> /\ str[1] \in Whitespace THEN lstrip(Tail(str)) ELSE str

RECURSIVE rstrip(_)
rstrip(str) ==
    IF str # <<>> /\ str[Len(str)] \in Whitespace
       THEN rstrip(SubSeq(str, 1, Len(str) - 1)) ELSE str

\* str.strip()
strip(str) == rstrip(lstrip(str))

RECURSIVE split_from(_, _, _, _)
\* The fields of str[i..], cur being the field in progress.
split_from(str, sep, i, cur) ==
    IF i > Len(str) THEN <<cur>>
    ELSE IF str[i] = sep THEN <<cur>> \o split_from(str, sep, i + 1, <<>>)
    ELSE split_from(str, sep, i + 1, Append(cur, str[i]))

\* str.split(sep)
split(str, sep) == split_from(str, sep, 1, <<>>)

RECURSIVE join_from(_, _, _)
join_from(parts, sep, i) ==
    IF i > Len(parts) THEN <<>>
    ELSE IF i = Len(parts) THEN parts[i]
    ELSE parts[i] \o <<sep>> \o join_from(parts, sep, i + 1)

\* sep.join(parts)
join(parts, sep) == join_from(parts, sep, 1)

\* Lines 192-195: lines = open(passwd).readlines(); disabled = False;
\* newlines = [].
EnableRead ==
    /\ epc = "begin"
    /\ lineno' = 0
    /\ newlines' = <<>>
    /\ disabled' = FALSE
    /\ epc' = "loop"
    /\ UNCHANGED <<passwd, passwd0, rewritten, host, proc, resid, pathv,
                   priv, okSinceDelete>>

\* Lines 196-201: one line of the loop.  parts[1] is looked at only when
\* parts[0] is the build user; a line with that name alone has no parts[1].
EnableLine ==
    /\ epc = "loop"
    /\ lineno < Len(passwd)
    /\ LET parts == split(strip(passwd[lineno + 1]), ":")
       IN  IF parts[1] = chrootuser /\ Len(parts) < 2
             THEN /\ epc' = "IndexError"
                  /\ UNCHANGED <<newlines, disabled, lineno>>
             ELSE /\ epc' = epc
                  /\ lineno' = lineno + 1
                  /\ IF parts[1] = chrootuser
                        /\ startswith(parts[2], <<"!", "!">>)
                       THEN /\ disabled' = TRUE
                            /\ newlines' = Append(newlines,
                                  join([parts EXCEPT
                                          ![2] = SubSeq(@, 3, Len(@))], ":"))
                       ELSE /\ disabled' = disabled
                            /\ newlines' = Append(newlines, join(parts, ":"))
    /\ UNCHANGED <<passwd, passwd0, rewritten, host, proc, resid, pathv,
                   priv, okSinceDelete>>

\* Lines 202-206: the file is written again, every line with a newline,
\* only when an account was enabled.
EnableWrite ==
    /\ epc = "loop"
    /\ lineno = Len(passwd)
    /\ IF disabled
          THEN /\ passwd' = [i \in 1..Len(newlines) |->
                                newlines[i] \o <<"\n">>]
               /\ rewritten' = TRUE
          ELSE UNCHANGED <<passwd, rewritten>>
    /\ epc' = "done"
    /\ UNCHANGED <<passwd0, lineno, newlines, disabled, host, proc, resid,
                   pathv, priv, okSinceDelete>>

\* _enable_chrootuser_account on any passwd file.
InitPasswd ==
    /\ InitProcs
    /\ PathIdle
    /\ PrivIdle
    /\ mtab = <<>> /\ pos = 0 /\ umounts = <<>> /\ outcomes = <<>>
    /\ passwd \in PasswdFiles
    /\ passwd0 = passwd
    /\ lineno = 0
    /\ newlines = <<>>
    /\ disabled = FALSE
    /\ rewritten = FALSE
    /\ epc = "begin"

NextPasswd ==
    \/ EnableRead
    \/ EnableLine
    \/ EnableWrite

SpecPasswd == InitPasswd /\ [][NextPasswd]_vars

----------------------------------------------------------------------------
(* The regions that change the process identity: _setup_dirs (283-308),   *)
(* _setup_build_dirs (310-331), _resetLogging (208-234), _nuke_rpm_db      *)
(* (245-263), followed in one process through its calls.                   *)

\* The process whose calls are followed.
Caller == 1

\* The handlers _resetLogging attaches, in the order of lines 222-225.
LogFiles == <<"state.log", "build.log", "root.log">>

\* The regions of a fresh setup, in the order _init and initialize() reach
\* them: lines 93, 97, 108 (the four doChroot calls of _make_build_user,
\* lines 184-188, each running _nuke_rpm_db), 109 and 77.
FreshRegions ==
    <<"setup_dirs", "resetLogging", "nuke_rpm_db", "nuke_rpm_db",
      "nuke_rpm_db", "nuke_rpm_db", "setup_build_dirs", "resetLogging">>

\* On the re-entry path and on the contended path the only region is the
\* _resetLogging of line 77.
Regions(r) == IF r = "fresh" THEN FreshRegions ELSE <<"resetLogging">>

\* uid_manager.dropPrivsTemp(): the identity is saved and becomes the
\* unprivileged one.
dropPrivsTemp ==
    /\ privStack' = Append(privStack, uid)
    /\ uid' = "unpriv"
    /\ drops' = drops + 1

\* uid_manager.becomeUser(0, 0): the identity is saved and becomes root.
becomeUser ==
    /\ privStack' = Append(privStack, uid)
    /\ uid' = "root"
    /\ drops' = drops + 1

\* uid_manager.restorePrivs(): the identity saved last is taken back.
restorePrivs ==
    /\ privStack # <<>>
    /\ uid' = privStack[Len(privStack)]
    /\ privStack' = SubSeq(privStack, 1, Len(privStack) - 1)
    /\ restores' = restores + 1

\* What the privilege regions leave alone.
LifecycleUnchanged ==
    UNCHANGED <<host, pc, op, result, raised, did, lockFile, lockMode,
                chroot_was_initialized, resid, pathv, pwv, okSinceDelete>>

\* The process is at position `where` of the region `name`.
At(name, where) ==
    /\ call # "none"
    /\ todo # <<>>
    /\ Head(todo) = name
    /\ rpc = where

\* A call of initialize() begins; r is the path it takes.
CallInitialize(r) ==
    /\ call = "none"
    /\ call' = "initialize"
    /\ route' = r
    /\ todo' = Regions(r)
    /\ rpc' = "enter"
    /\ rexc' = "none"
    /\ entry' = <<uid, privStack>>
    /\ rdfail' = FALSE
    /\ UNCHANGED <<uid, privStack, resultdir, handlers, drops, restores,
                   logging_initialized>>
    /\ LifecycleUnchanged

\* A call of doChroot() begins (lines 123-126, not on an EL5 host).
CallDoChroot ==
    /\ call = "none"
    /\ call' = "doChroot"
    /\ route' = "none"
    /\ todo' = <<"nuke_rpm_db">>
    /\ rpc' = "enter"
    /\ rexc' = "none"
    /\ entry' = <<uid, privStack>>
    /\ rdfail' = FALSE
    /\ UNCHANGED <<uid, privStack, resultdir, handlers, drops, restores,
                   logging_initialized>>
    /\ LifecycleUnchanged

\* delete(), line 411: rmtree(basedir) takes the result directory with it
\* (the default template puts it below basedir).
CallDelete ==
    /\ call = "none"
    /\ resultdir # "absent"
    /\ resultdir' = "absent"
    /\ UNCHANGED <<uid, privStack, call, route, todo, rpc, rexc, handlers,
                   drops, restores, entry, rdfail, logging_initialized>>
    /\ LifecycleUnchanged

\* _setup_dirs, lines 284-302: the skeleton directories, then the drop.
SetupDirsDrop ==
    /\ At("setup_dirs", "enter")
    /\ dropPrivsTemp
    /\ rpc' = "try"
    /\ UNCHANGED <<call, route, todo, rexc, resultdir, handlers, restores,
                   entry, rdfail, logging_initialized>>
    /\ LifecycleUnchanged

\* Lines 303-306: util.mkdirIfAbsent(self.resultdir); Error becomes
\* ResultDirNotAccessible.
SetupDirsMkdir ==
    /\ At("setup_dirs", "try")
    /\ IF resultdir = "absent"
          THEN \E ok \in BOOLEAN :
                  IF ok THEN /\ resultdir' = uid
                             /\ UNCHANGED <<rexc, rdfail>>
                        ELSE /\ rexc' = "ResultDirNotAccessible"
                             /\ rdfail' = TRUE
                             /\ UNCHANGED resultdir
          ELSE UNCHANGED <<resultdir, rexc, rdfail>>
    /\ rpc' = "finally"
    /\ UNCHANGED <<uid, privStack, call, route, todo, handlers, drops,
                   restores, entry, logging_initialized>>
    /\ LifecycleUnchanged

\* Lines 307-308: finally: restorePrivs().
SetupDirsRestore ==
    /\ At("setup_dirs", "finally")
    /\ restorePrivs
    /\ rpc' = "exit"
    /\ UNCHANGED <<call, route, todo, rexc, resultdir, handlers, drops,
                   entry, rdfail, logging_initialized>>
    /\ LifecycleUnchanged

\* _setup_build_dirs, line 313: the drop.
SetupBuildDirsDrop ==
    /\ At("setup_build_dirs", "enter")
    /\ dropPrivsTemp
    /\ rpc' = "try"
    /\ UNCHANGED <<call, route, todo, rexc, resultdir, handlers, restores,
                   entry, rdfail, logging_initialized>>
    /\ LifecycleUnchanged

\* Lines 314-329: the build directories, the ownership walk and .rpmmacros;
\* any of them may raise.
SetupBuildDirsBody ==
    /\ At("setup_build_dirs", "try")
    /\ \E ok \in BOOLEAN : rexc' = IF ok THEN rexc ELSE "OSError"
    /\ rpc' = "finally"
    /\ UNCHANGED <<uid, privStack, call, route, todo, resultdir, handlers,
                   drops, restores, entry, rdfail, logging_initialized>>
    /\ LifecycleUnchanged

\* The finally block as it would be without try/finally: restorePrivs() is
\* reached only when nothing was raised.
SetupBuildDirsRestoreOnSuccess ==
    /\ At("setup_build_dirs", "finally")
    /\ IF rexc = "none"
          THEN restorePrivs
          ELSE UNCHANGED <<uid, privStack, restores>>
    /\ rpc' = "exit"
    /\ UNCHANGED <<call, route, todo, rexc, resultdir, handlers, drops,
                   entry, rdfail, logging_initialized>>
    /\ LifecycleUnchanged

\* Lines 330-331: finally: restorePrivs().
SetupBuildDirsRestore ==
    /\ At("setup_build_dirs", "finally")
    /\ restorePrivs
    /\ rpc' = "exit"
    /\ UNCHANGED <<call, route, todo, rexc, resultdir, handlers, drops,
                   entry, rdfail, logging_initialized>>
    /\ LifecycleUnchanged

\* _resetLogging without the test of lines 210-211.
ResetLoggingUnguarded ==
    /\ At("resetLogging", "enter")
    /\ logging_initialized' = [logging_initialized EXCEPT ![Caller] = TRUE]
    /\ IF resultdir = "absent"
          THEN \E ok \in BOOLEAN :
                  IF ok THEN /\ resultdir' = uid
                             /\ rpc' = "try"
                             /\ UNCHANGED <<rexc, rdfail>>
                        ELSE /\ rexc' = "Error"
                             /\ rdfail' = TRUE
                             /\ rpc' = "exit"
                             /\ UNCHANGED resultdir
          ELSE /\ rpc' = "try"
               /\ UNCHANGED <<resultdir, rexc, rdfail>>
    /\ UNCHANGED <<uid, privStack, call, route, todo, handlers, drops,
                   restores, entry>>
    /\ LifecycleUnchanged

\* _resetLogging, lines 210-214: return when the flag is set; otherwise set
\* it and util.mkdirIfAbsent(self.resultdir), which raises Error when the
\* directory cannot be made.
ResetLoggingGuard ==
    /\ At("resetLogging", "enter")
    /\ IF logging_initialized[Caller]
          THEN /\ rpc' = "exit"
               /\ UNCHANGED <<resultdir, rexc, rdfail, logging_initialized>>
          ELSE /\ logging_initialized' =
                     [logging_initialized EXCEPT ![Caller] = TRUE]
               /\ IF resultdir = "absent"
                     THEN \E ok \in BOOLEAN :
                             IF ok THEN /\ resultdir' = uid
                                        /\ rpc' = "try"
                                        /\ UNCHANGED <<rexc, rdfail>>
                                   ELSE /\ rexc' = "Error"
                                        /\ rdfail' = TRUE
                                        /\ rpc' = "exit"
                                        /\ UNCHANGED resultdir
                     ELSE /\ rpc' = "try"
                          /\ UNCHANGED <<resultdir, rexc, rdfail>>
    /\ UNCHANGED <<uid, privStack, call, route, todo, handlers, drops,
                   restores, entry>>
    /\ LifecycleUnchanged

\* Lines 216-217: try: dropPrivsTemp().
ResetLoggingDrop ==
    /\ At("resetLogging", "try")
    /\ dropPrivsTemp
    /\ rpc' = "body"
    /\ UNCHANGED <<call, route, todo, rexc, resultdir, handlers, restores,
                   entry, rdfail, logging_initialized>>
    /\ LifecycleUnchanged

\* Lines 222-232: the three handlers are attached in turn; opening a log
\* file may raise after k of them were attached.
ResetLoggingAttach ==
    /\ At("resetLogging", "body")
    /\ \E k \in 0..Len(LogFiles) :
          /\ handlers' = handlers \o SubSeq(LogFiles, 1, k)
          /\ rexc' = IF k < Len(LogFiles) THEN "IOError" ELSE rexc
    /\ rpc' = "finally"
    /\ UNCHANGED <<uid, privStack, call, route, todo, resultdir, drops,
                   restores, entry, rdfail, logging_initialized>>
    /\ LifecycleUnchanged

\* Lines 233-234: finally: restorePrivs().
ResetLoggingRestore ==
    /\ At("resetLogging", "finally")
    /\ restorePrivs
    /\ rpc' = "exit"
    /\ UNCHANGED <<call, route, todo, rexc, resultdir, handlers, drops,
                   entry, rdfail, logging_initialized>>
    /\ LifecycleUnchanged

\* _nuke_rpm_db, lines 248-253: return when there are no __db* files;
\* otherwise become root.
NukeRpmDbBecome ==
    /\ At("nuke_rpm_db", "enter")
    /\ \E dbfiles \in BOOLEAN :
          IF dbfiles THEN /\ becomeUser
                          /\ rpc' = "try"
                     ELSE /\ rpc' = "exit"
                          /\ UNCHANGED <<uid, privStack, drops>>
    /\ UNCHANGED <<call, route, todo, rexc, resultdir, handlers, restores,
                   entry, rdfail, logging_initialized>>
    /\ LifecycleUnchanged

\* Lines 254-261: os.unlink of every file; OSError is logged and raised on.
NukeRpmDbUnlink ==
    /\ At("nuke_rpm_db", "try")
    /\ \E ok \in BOOLEAN : rexc' = IF ok THEN rexc ELSE "OSError"
    /\ rpc' = "finally"
    /\ UNCHANGED <<uid, privStack, call, route, todo, resultdir, handlers,
                   drops, restores, entry, rdfail, logging_initialized>>
    /\ LifecycleUnchanged

\* Lines 262-263: finally: restorePrivs().
NukeRpmDbRestore ==
    /\ At("nuke_rpm_db", "finally")
    /\ restorePrivs
    /\ rpc' = "exit"
    /\ UNCHANGED <<call, route, todo, rexc, resultdir, handlers, drops,
                   entry, rdfail, logging_initialized>>
    /\ LifecycleUnchanged

\* The region is left: an exception goes on to the caller of the call (the
\* finally of line 76 changes no identity), otherwise the next region is
\* entered, or the call returns after the last one.
RegionExit ==
    /\ call # "none"
    /\ rpc = "exit"
    /\ IF rexc # "none"
          THEN /\ todo' = <<>>
               /\ call' = "none"
          ELSE /\ todo' = Tail(todo)
               /\ call' = IF Tail(todo) = <<>> THEN "none" ELSE call
    /\ rpc' = "enter"
    /\ drops' = 0
    /\ restores' = 0
    /\ UNCHANGED <<uid, privStack, route, rexc, resultdir, handlers, entry,
                   rdfail, logging_initialized>>
    /\ LifecycleUnchanged

\* The calls of one process, from either identity, with the result
\* directory there or not.
InitPrivs ==
    /\ InitProcs
    /\ PathIdle
    /\ PasswdIdle
    /\ mtab = <<>> /\ pos = 0 /\ umounts = <<>> /\ outcomes = <<>>
    /\ uid \in {"root", "unpriv"}
    /\ privStack = <<>>
    /\ call = "none"
    /\ route = "none"
    /\ todo = <<>>
    /\ rpc = "enter"
    /\ rexc = "none"
    /\ resultdir \in {"absent", "present"}
    /\ handlers = <<>>
    /\ drops = 0
    /\ restores = 0
    /\ entry = <<uid, <<>>>>
    /\ rdfail = FALSE

NextPrivs ==
    \/ \E r \in {"fresh", "reentry", "contended"} : CallInitialize(r)
    \/ CallDoChroot
    \/ CallDelete
    \/ SetupDirsDrop
    \/ SetupDirsMkdir
    \/ SetupDirsRestore
    \/ SetupBuildDirsDrop
    \/ SetupBuildDirsBody
    \/ SetupBuildDirsRestore
    \/ ResetLoggingGuard
    \/ ResetLoggingDrop
    \/ ResetLoggingAttach
    \/ ResetLoggingRestore
    \/ NukeRpmDbBecome
    \/ NukeRpmDbUnlink
    \/ NukeRpmDbRestore
    \/ RegionExit

SpecPrivs == InitPrivs /\ [][NextPrivs]_vars

----------------------------------------------------------------------------
(* The claims *)

\* p has returned from a call of the method `name`.
Returned(p, name) == pc[p] = "idle" /\ op[p] = name

\* p is inside _init(): between the residual unmount and the postinit hook.
InInit(p) ==
    pc[p] \in {"init", "init_dirs", "init_pkg", "init_user", "init_builddirs",
               "init_reentry", "init_touch"}

\* The step from s to s' is the first step of a call of `name` by p.
CallStep(p, name) ==
    /\ pc[p] = "idle"
    /\ op'[p] = name
    /\ <<pc[p], op[p], result[p], did[p], chroot_was_initialized[p]>>
          # <<pc'[p], op'[p], result'[p], did'[p], chroot_was_initialized'[p]>>

\* C1: when another process holds the buildroot lock (shared or exclusive)
\* at the moment initialize() is called, initialize() does not raise: it
\* skips _init, ends up holding the shared lock and returns normally.
C1_ContendedInitializeJoins ==
    \A p \in Procs :
        (Returned(p, "initialize") /\ "contended" \in did[p])
            => /\ result[p] = "ok"
               /\ lockMode[p] = "sh"
               /\ "init" \notin did[p]

\* C2: in every interleaving, delete() removes the base directory only
\* under the exclusive lock, so the removal never takes place while another
\* process holds the shared lock on the buildroot.
C2_NoRemovalWhileInUse ==
    [][\A p \in Procs :
          (pc[p] = "del_rmtree" /\ pc'[p] = "idle")
              => \A q \in Procs \ {p} : lockMode[q] # "sh"]_vars

\* C3: at every moment at most one process is inside _init, no other
\* process holds the lock in any mode meanwhile, and a process whose
\* exclusive lock attempt failed executes no step of _init.
C3_InitSerialized ==
    \A p \in Procs :
        /\ InInit(p) =>
              \A q \in Procs \ {p} : ~InInit(q) /\ lockMode[q] = "none"
        /\ (op[p] = "initialize" /\ "exfail" \in did[p]) => "init" \notin did[p]

\* C4: delete() called on an existing base directory while another process
\* holds the lock raises BuildRootLocked and has changed nothing: nothing
\* killed or unmounted, base directory and marker in place, flag unchanged.
C4_ContendedDeleteRaises ==
    [][\A p \in Procs :
          (/\ CallStep(p, "delete")
           /\ Exists("base")
           /\ \E q \in Procs \ {p} : lockMode[q] # "none")
              => /\ pc'[p] = "idle"
                 /\ result'[p] = "BuildRootLocked"
                 /\ tree' = tree
                 /\ mounted' = mounted
                 /\ chroot_was_initialized' = chroot_was_initialized]_vars

\* C5: when initialize() succeeds twice in sequence with no delete() in
\* between, the second call does not run the dependency install or the
\* build-user bootstrap again, and the marker file is present when it
\* returns.
C5_InitializeIdempotent ==
    [][\A p \in Procs :
          (/\ op[p] = "initialize"
           /\ pc[p] # "idle"
           /\ pc'[p] = "idle"
           /\ result'[p] = "ok"
           /\ "afterok" \in did[p])
              => /\ "install" \notin did[p]
                 /\ "mkuser" \notin did[p]
                 /\ "marker" \in tree']_vars

\* What holds of an initialize() called without the base directory: it gets
\* the exclusive lock, finds the marker absent, takes the fresh path, and
\* returns normally only after dependency install and user bootstrap.
FreshAfterDelete ==
    \A p \in Procs :
        (op[p] = "initialize" /\ "nobase" \in did[p])
            => /\ "exfail" \notin did[p]
               /\ pc[p] # "init_reentry"
               /\ ("init" \in did[p]) => ~chroot_was_initialized[p]
               /\ (pc[p] = "idle" /\ result[p] = "ok")
                     => {"init", "dirs", "install", "mkuser", "marker"}
                            \subseteq did[p]

\* C6: after a successful delete() the base directory, the sandbox root and
\* the marker are gone and the flag is false; the next initialize() finds
\* the marker absent and does the full fresh setup, dependency install and
\* user bootstrap included.
C6_DeleteThenFreshSetup ==
    [][/\ \A p \in Procs :
            (pc[p] = "del_rmtree" /\ pc'[p] = "idle")
                => /\ result'[p] = "ok"
                   /\ tree' = {}
                   /\ ~chroot_was_initialized'[p]
       /\ FreshAfterDelete']_vars

\* C6 happens: one process has deleted the buildroot after an initialize()
\* and another has since returned from a fresh initialize().
C6_Witness ==
    \E p, q \in Procs :
        /\ Returned(q, "delete") /\ result[q] = "ok" /\ "rmtree" \in did[q]
        /\ logging_initialized[q]
        /\ Returned(p, "initialize") /\ result[p] = "ok"
        /\ {"nobase", "install", "mkuser"} \subseteq did[p]
        /\ Exists("marker")

\* C7: when the processes hold the shared lock on an existing sandbox and
\* each of them calls finalize(), the cleanup has run at least once when all
\* of them have returned.
C7_LastFinalizeCleansUp ==
    (\A p \in Procs :
        Returned(p, "finalize") /\ {"hadsh", "sawroot"} \subseteq did[p])
        => \E p \in Procs : {"kill", "umount"} \subseteq did[p]

\* C8: finalize() kills and unmounts only while the caller holds the
\* exclusive lock and no other process holds the shared lock; when the
\* exclusive lock is refused it does no cleanup and only releases its lock.
C8_FinalizeCleanupExclusive ==
    [][\A p \in Procs :
          /\ (pc[p] = "fin_cleanup" /\ pc'[p] = "fin_unlock")
                => /\ lockMode[p] = "ex"
                   /\ \A q \in Procs \ {p} : lockMode[q] # "sh"
          /\ (op[p] = "finalize" /\ pc[p] = "fin_unlock" /\ pc'[p] = "idle"
                 /\ "exfail" \in did[p])
                => /\ "kill" \notin did'[p] /\ "umount" \notin did'[p]
                   /\ result'[p] = "ok"
                   /\ lockMode'[p] = "none"]_vars

\* C9: finalize() without the sandbox root is a no-op: no base directory
\* and no lock file are created, no lock is acquired or released, nothing
\* is killed or unmounted, and it returns without error.
C9_FinalizeNoRootNoOp ==
    [][\A p \in Procs :
          (CallStep(p, "finalize") /\ ~Exists("root"))
              => /\ pc'[p] = "idle"
                 /\ result'[p] = "ok"
                 /\ did'[p] = {}
                 /\ UNCHANGED <<tree, lockIno, mounted, lockFile, lockMode>>]_vars

\* C9 happens: finalize() has returned on a host where initialize() was
\* never called, and there is still no base directory and no lock file.
C9_Witness ==
    \E p \in Procs :
        /\ Returned(p, "finalize") /\ result[p] = "ok"
        /\ \A q \in Procs : op[q] \in {"none", "finalize"}
        /\ tree = {} /\ lockIno = 0 /\ lockFile[p] = 0

\* The mount points of the lines from..Len(table), in listing order.
MountPointsFrom(table, from) ==
    [i \in 1..(Len(table) - from + 1) |-> table[from + i - 1][2]]

\* The mount point lies below the sandbox root.
BelowRoot(m) ==
    /\ Len(m) > Len(rootdir) + 1
    /\ \A i \in 1..Len(rootdir) : m[i] = rootdir[i]
    /\ m[Len(rootdir) + 1] = "/"

Reverse(s) == [i \in 1..Len(s) |-> s[Len(s) + 1 - i]]

\* C10: _umount_residual issues its unmount commands in the reverse of the
\* table's listing order (of two sandbox entries the later listed is
\* unmounted first), and a failed unmount neither raises nor stops the
\* unmounting of the remaining entries.
C10_ReverseOrderBestEffort ==
    /\ umounts = Reverse(SelectSeq(MountPointsFrom(mtab, pos + 1), BelowRoot))
    /\ Len(outcomes) = Len(umounts)
    /\ pos > 0 => ENABLED UmountResidualStep

\* C10 happens: the table /sb/a, /sb/a/b, /sb/a/b/c was swept, c then b
\* then a were unmounted, although the first unmount failed.
C10_Witness ==
    /\ pos = 0
    /\ MountPointsFrom(mtab, 1) =
          << <<"/", "s", "b", "/", "a">>,
             <<"/", "s", "b", "/", "a", "/", "b">>,
             <<"/", "s", "b", "/", "a", "/", "b", "/", "c">> >>
    /\ umounts =
          << <<"/", "s", "b", "/", "a", "/", "b", "/", "c">>,
             <<"/", "s", "b", "/", "a", "/", "b">>,
             <<"/", "s", "b", "/", "a">> >>
    /\ outcomes = <<TRUE, FALSE, FALSE>>

\* The canonical path of m is the canonical sandbox root, a separator and
\* at least one more character.
CanonicalBelowRoot(m) ==
    LET c == realpath(m)
        r == realpath(rootdir)
    IN  /\ Len(c) >= Len(r) + 2
        /\ SubSeq(c, 1, Len(r)) = r
        /\ c[Len(r) + 1] = "/"

\* C11: the residual sweep unmounts a visited entry if and only if its
\* canonical path is the canonical sandbox root followed by a separator and
\* at least one more character; it never unmounts the sandbox root itself,
\* "/", a path outside the root, or a sibling whose name has the root path
\* as a string prefix.
C11_UnmountsOnlyBelowRoot ==
    /\ \A i \in (pos + 1)..Len(mtab) :
          (\E j \in 1..Len(umounts) : umounts[j] = mtab[i][2])
              <=> CanonicalBelowRoot(mtab[i][2])
    /\ \A j \in 1..Len(umounts) :
          umounts[j] \notin { <<"/">>, <<"/", "p">>, <<"/", "s", "b">>,
                              <<"/", "s", "b", "/">>, <<"/", "s", "b", "x">> }

\* C11 happens: a table listing the sandbox root, a sibling /sbx and the
\* mount /sb//a was swept and only /sb//a was unmounted.
C11_Witness ==
    /\ pos = 0
    /\ MountPointsFrom(mtab, 1) =
          << <<"/", "s", "b">>, <<"/", "s", "b", "x">>,
             <<"/", "s", "b", "/", "/", "a">> >>
    /\ umounts = << <<"/", "s", "b", "/", "/", "a">> >>

RECURSIVE SplitFrom(_, _, _)
\* The components of path[i..], cur being the component in progress.
SplitFrom(path, i, cur) ==
    IF i > Len(path) THEN <<cur>>
    ELSE IF path[i] = "/" THEN <<cur>> \o SplitFrom(path, i + 1, <<>>)
    ELSE SplitFrom(path, i + 1, Append(cur, path[i]))

RECURSIVE Walk(_, _, _)
\* The directory reached from `at` by the components comps[i..]: empty
\* components and "." stay, ".." goes to the parent ("/" is its own parent).
Walk(comps, i, at) ==
    IF i > Len(comps) THEN at
    ELSE IF comps[i] = <<>> \/ comps[i] = <<".">> THEN Walk(comps, i + 1, at)
    ELSE IF comps[i] = <<".", ".">>
            THEN Walk(comps, i + 1,
                      IF at = <<>> THEN at ELSE SubSeq(at, 1, Len(at) - 1))
    ELSE Walk(comps, i + 1, Append(at, comps[i]))

\* The location an absolute path denotes, as the list of directory names
\* from "/" (no symbolic links).
Location(path) == Walk(SplitFrom(path, 1, <<>>), 1, <<>>)

\* The path denotes the sandbox root or a location below it.
UnderRoot(path) ==
    /\ Len(Location(path)) >= Len(Location(rootdir))
    /\ SubSeq(Location(path), 1, Len(Location(rootdir))) = Location(rootdir)

\* C12: for every sequence of path arguments, parent-relative segments and
\* leading separators included, the path make_chroot_path returns denotes a
\* location under the sandbox root.
C12_PathStaysUnderRoot ==
    mcp = "done" => UnderRoot(new_path)

\* C13: every region that changes the identity has called restorePrivs
\* exactly once when it is left, whether its body returned or raised (and
\* not at all when it left before the drop); when initialize() or
\* doChroot() has returned or raised, the identity and the saved identities
\* are those in force before the call.
C13_RestoreBalanced ==
    /\ (call # "none" /\ rpc = "exit") => (drops <= 1 /\ restores = drops)
    /\ call = "none" => <<uid, privStack>> = entry

\* C13 happens: initialize() was called as root on the fresh path, went
\* through _setup_dirs, _resetLogging and _nuke_rpm_db, _setup_build_dirs
\* raised with the privileges dropped, and the call has ended.
C13_Witness ==
    /\ call = "none"
    /\ route = "fresh"
    /\ rexc = "OSError"
    /\ handlers = LogFiles
    /\ resultdir = "unpriv"
    /\ uid = "root"

\* C14: on every path through initialize() the result directory is created
\* only while privileges are dropped, and a failure to create it surfaces
\* as ResultDirNotAccessible.
C14_ResultDirUnderDroppedPrivs ==
    /\ resultdir # "root"
    /\ (call = "none" /\ rdfail) => rexc = "ResultDirNotAccessible"

\* No handler is attached twice.
NoDuplicates(seq) ==
    \A i, j \in 1..Len(seq) : i # j => seq[i] # seq[j]

\* C15: over any sequence of calls on one object, logging_initialized goes
\* from false to true at most once and never back, and each of the three
\* file handlers is attached to its logger at most once.
C15_LoggingAttachedOnce ==
    [][/\ logging_initialized[Caller] => logging_initialized'[Caller]
       /\ NoDuplicates(handlers')
       /\ (handlers' # handlers) => logging_initialized'[Caller]]_vars

\* C15 happens: the handlers were attached by one initialize(), the result
\* directory was deleted, and a later initialize() has gone through
\* _resetLogging again and returned.
C15_Witness ==
    /\ call = "none"
    /\ route = "reentry"
    /\ rexc = "none"
    /\ handlers = LogFiles
    /\ resultdir = "absent"
    /\ logging_initialized[Caller]

\* The line without its newline.
Content(line) ==
    IF line # <<>> /\ line[Len(line)] = "\n"
       THEN SubSeq(line, 1, Len(line) - 1) ELSE line

\* Where the first ":" of the line is (0 if there is none).
FirstColon(line) ==
    IF \E i \in 1..Len(line) : line[i] = ":"
       THEN CHOOSE i \in 1..Len(line) :
               line[i] = ":" /\ \A j \in 1..(i - 1) : line[j] # ":"
       ELSE 0

\* A line of the build user whose password field begins with "!!".
DisabledBuildUser(line) ==
    LET c == FirstColon(line)
    IN  /\ c > 0
        /\ SubSeq(line, 1, c - 1) = chrootuser
        /\ Len(line) >= c + 2
        /\ line[c + 1] = "!"
        /\ line[c + 2] = "!"

\* The line with the two characters after its first ":" taken out.
Enabled(line) ==
    LET c == FirstColon(line)
    IN  SubSeq(line, 1, c) \o SubSeq(line, c + 3, Len(line))

\* C16: when _enable_chrootuser_account has returned, every line of the
\* build user whose password field began with "!!" has lost exactly those
\* two characters, every other field and every other line is as it was,
\* and a file without such a line was not rewritten.
C16_EnableStripsOnlyMarker ==
    epc = "done" =>
        /\ Len(passwd) = Len(passwd0)
        /\ \A i \in 1..Len(passwd0) :
              Content(passwd[i]) =
                 IF DisabledBuildUser(Content(passwd0[i]))
                    THEN Enabled(Content(passwd0[i]))
                    ELSE Content(passwd0[i])
        /\ (\A i \in 1..Len(passwd0) : ~DisabledBuildUser(Content(passwd0[i])))
              => ~rewritten

\* C17: when a fresh setup reaches the build-user bootstrap without
\* usr/sbin/useradd, RootError is raised and nothing else is done (no user
\* command, the home directory kept, no marker written), and the lock goes
\* from exclusive to shared before RootError reaches the caller.
C17_NoUseraddRaisesRootError ==
    [][\A p \in Procs :
          /\ (pc[p] = "init_user" /\ pc'[p] # "init_user" /\ ~Exists("useradd"))
                => /\ pc'[p] = "init_sh"
                   /\ raised'[p] = "RootError"
                   /\ did'[p] = did[p]
                   /\ "marker" \notin did[p]
                   /\ tree' = tree
                   /\ lockMode[p] = "ex"
          /\ (pc[p] = "init_sh" /\ pc'[p] # "init_sh" /\ raised[p] = "RootError")
                => /\ pc'[p] = "idle"
                   /\ result'[p] = "RootError"
                   /\ lockMode[p] = "ex"
                   /\ lockMode'[p] = "sh"
                   /\ "mkuser" \notin did'[p]
                   /\ "marker" \notin did'[p]]_vars

\* C17 happens: initialize() has raised RootError after an install that
\* brought no useradd; the caller holds the shared lock, and there is no
\* build user and no marker.
C17_Witness ==
    \E p \in Procs :
        /\ Returned(p, "initialize")
        /\ result[p] = "RootError"
        /\ "install" \in did[p]
        /\ lockMode[p] = "sh"
        /\ ~Exists("useradd") /\ ~Exists("user") /\ ~Exists("marker")

\* C18: in every reachable state, if the marker file exists then the
\* products of every fresh-setup step (skeleton directories, dependency
\* install, build user, build subdirectories) are there: all of them were
\* made after the base directory was last deleted and before the marker.
C18_MarkerMeansSetupComplete ==
    Exists("marker") =>
        {"base", "root", "skel", "useradd", "user", "builddirs"} \subseteq tree

\* C19: whenever initialize() returns normally, on the exclusive path as
\* on the contended path, the marker file exists at the moment of return
\* and the caller holds the shared lock.
C19_InitializeOkMeansInitialized ==
    [][\A p \in Procs :
          (/\ op[p] = "initialize"
           /\ pc[p] # "idle"
           /\ pc'[p] = "idle"
           /\ result'[p] = "ok")
              => /\ "marker" \in tree'
                 /\ lockMode'[p] = "sh"]_vars

\* C20: whenever finalize() or delete() returns normally, the caller holds
\* no lock and its lock handle is closed, whatever it held before the call
\* and whether or not the sandbox root or the base directory existed.
C20_FinalizeDeleteReleaseLock ==
    [][\A p \in Procs :
          (/\ op'[p] \in {"finalize", "delete"}
           /\ <<pc[p], op[p], result[p], did[p]>>
                 # <<pc'[p], op'[p], result'[p], did'[p]>>
           /\ pc'[p] = "idle"
           /\ result'[p] = "ok")
              => /\ lockMode'[p] = "none"
                 /\ lockFile'[p] = 0]_vars

====
